---- MODULE Spec2Model ----
(***************************************************************************)
(* Model of tasmotizer.py: the Tasmotizer main window, the FlashingDialog  *)
(* it opens for one flashing run, the ESPWorker that executes the esptool  *)
(* commands on its own QThread, and the queued signals between them.       *)
(*                                                                         *)
(* Two threads act: the GUI thread (user actions, network reply signals,   *)
(* delivery of queued signals to the dialog's slots) and one worker thread *)
(* per run (ESPWorker.execute and the driver calls it makes).  The driver  *)
(* (tasmotizer_esptool) is modelled at its boundary: the order of the      *)
(* signals it emits, its polling of the continue flag, and its two ways of *)
(* returning (normally, or by raising FatalError/SerialException).         *)
(***************************************************************************)
EXTENDS Integers, Sequences, FiniteSets, TLC

\* ------------------------------------------------------------------ bounds
\* Largest body of a remote image, in chunks delivered by readyRead.
MaxBody == 2

\* Run-indexed state is kept for two Tasmotize runs.  Spec follows the first
\* run, from the click to the release of its dialog, with every setting of the
\* main window; SpecTwoRuns follows two runs in a row of a local image.
Runs == {1, 2}

\* Texts a driver exception can carry ("{}".format(e)); the empty text is
\* what an exception constructed without a message formats to.
ErrTexts == {"", "timeout"}
\* QNetworkReply.errorString() of a failed fetch.
NetErrText == "net"
\* Python's None for FlashingDialog.error_msg.
None == "<None>"

VARIABLES
    app,          \* "up" | "crashed": the process (an exception escaping a slot aborts it)
    ui,           \* "main" | "dialog" | "result": where start_process is
    run,          \* number of FlashingDialogs constructed so far; the live one is `run`
    cfg,          \* parent.mode / cbBackup / cbErase / cbVerify read by the live dialog
    result,       \* QDialog result code of the live dialog: "none" | "Accepted" | "Rejected"
    error_msg,    \* FlashingDialog.error_msg
    btnsEnabled,  \* FlashingDialog.btns enabled state (the Abort button)
    guiPc,        \* "idle" | "wait_abort" | "wait_accept": GUI thread inside espthread.wait(2000)
    net,          \* bin_reply: [state, body, sent]
    bin_data,     \* FlashingDialog.bin_data, as a length in chunks
    cacheFile,    \* the file at bin_file written by saveBinFile: -1 absent, else its length
    netErrorShown,\* the "Network error" message box has been shown for the live dialog
    slotRaised,   \* an exception escaped a slot of the live dialog
    worker,       \* per run: the ESPWorker, its thread and its position in execute
    swFlag,       \* esptool.sw continue flag (process-wide)
    queue,        \* queued signal deliveries to dialogs, in posting order
    driverCalls,  \* per run: the esptool.main commands invoked, in order
    stageBegun,   \* per run: the stages the driver actually began, in order
    started,      \* per run: the stage-start signals the dialog's slots handled, in order
    terminals,    \* per run: the terminal signals the worker emitted (finished / port_error)
    backupFailed, \* per run: read_flash raised
    cancelReq,    \* per run: abort() called stop() on the run's worker
    outcome,      \* per run: what start_process presented: [kind, detail]
    appPort,      \* Tasmotizer.port, the application's own QSerialPort: "closed" | "open"
    previous_reply,\* Tasmotizer.previous_reply, as a sequence of characters
    stream,       \* what the device has still to send on the application's port
    arrived,      \* what showCurrentIP has read from the port so far
    sbMessage,    \* the "Device IP: ..." messages shown in the status bar, in order
    progress_task \* FlashingDialog.progress_task and erase_timer:
                  \* [value, shown, raised, timer]

guiVars  == <<app, ui, run, cfg, result, error_msg, btnsEnabled, guiPc, slotRaised>>
netVars  == <<net, bin_data, cacheFile, netErrorShown>>
wrkVars  == <<worker, swFlag>>
histVars == <<driverCalls, stageBegun, started, terminals, backupFailed, cancelReq, outcome>>
mainVars == <<appPort, previous_reply, stream, arrived, sbMessage>>
vars == <<guiVars, netVars, wrkVars, queue, histVars, mainVars, progress_task>>

\* ------------------------------------------------------------ initial state
NoWorker == [pc |-> "none", port |-> "none", backup |-> FALSE, erase |-> FALSE,
             verify |-> FALSE, continue_flag |-> FALSE, quit |-> FALSE,
             image |-> [kind |-> "none", len |-> 0], execs |-> 0]
NoNet == [state |-> "none", body |-> 0, sent |-> 0]
NoOutcome == [kind |-> "none", detail |-> None]
\* A new QProgressBar: range 0..100, value -1 (Qt's reset state); `shown` is
\* the value last passed to setValue, if any; `raised` records that the
\* computation of a value raised; `timer` is erase_timer's active state.
NewProgressBar == [value |-> -1, shown |-> <<>>, raised |-> FALSE, timer |-> FALSE]

\* The state after Tasmotizer.__init__, but for the application's port and
\* what the device sends on it.
InitWindow ==
    /\ app = "up"
    /\ ui = "main"
    /\ run = 0
    /\ cfg = [mode |-> 0, file |-> FALSE, backup |-> FALSE, erase |-> TRUE, verify |-> FALSE]
    /\ slotRaised = FALSE
    /\ result = "none"
    /\ error_msg = None
    /\ btnsEnabled = TRUE
    /\ guiPc = "idle"
    /\ net = NoNet
    /\ bin_data = 0
    /\ cacheFile = -1
    /\ netErrorShown = FALSE
    /\ worker = [r \in Runs |-> NoWorker]
    /\ swFlag = TRUE
    /\ queue = <<>>
    /\ driverCalls = [r \in Runs |-> <<>>]
    /\ stageBegun = [r \in Runs |-> <<>>]
    /\ started = [r \in Runs |-> <<>>]
    /\ terminals = [r \in Runs |-> <<>>]
    /\ backupFailed = [r \in Runs |-> FALSE]
    /\ cancelReq = [r \in Runs |-> FALSE]
    /\ outcome = [r \in Runs |-> NoOutcome]
    /\ progress_task = NewProgressBar
    /\ previous_reply = <<>>
    /\ arrived = <<>>
    /\ sbMessage = <<>>

Init ==
    /\ InitWindow
    /\ appPort = "closed"
    /\ stream = <<>>

\* ------------------------------------------------------------------ helpers
\* The dialog object of run r exists (constructed and not yet destroyed).
DialogAlive(r) == r = run /\ ui \in {"dialog", "result"}

\* A cross-thread emission: the slot call is queued for the receiving dialog
\* if it exists at emission time, and dropped otherwise.
Post(q, sig, arg) ==
    IF ui \in {"dialog", "result"}
    THEN Append(q, [sig |-> sig, to |-> run, arg |-> arg])
    ELSE q

\* ---------------------------------------------------- FlashingDialog.run_esptool
\* A fresh QThread and ESPWorker for dialog r, built from the parent's port
\* and check boxes c; the thread is started and will call execute.  `img` is
\* what bin_file holds at that moment.
run_esptool(w, r, c, img) ==
    [w EXCEPT ![r] = [pc |-> "init", port |-> "port",
                      backup |-> c.backup, erase |-> c.erase,
                      verify |-> c.verify, continue_flag |-> TRUE,
                      quit |-> FALSE, image |-> img, execs |-> 1]]

\* --------------------------------------------------- Tasmotizer.start_process
\* What the user can have set in the main window before pressing Tasmotize:
\* mode 0 is a local BIN file (file: a path is selected), mode 1 stands for
\* the two remote modes (1 and 2 take the same branch everywhere).
Configs == [mode : {0, 1}, file : BOOLEAN, backup : BOOLEAN, erase : BOOLEAN,
            verify : BOOLEAN]

\* FlashingDialog.__init__ from "# process starts": a remote mode requests the
\* image and waits for the reply's signals, the local mode starts the worker.
DialogInit(c, body) ==
    /\ run' = run + 1
    /\ ui' = "dialog"
    /\ result' = "none"
    /\ error_msg' = None
    /\ btnsEnabled' = TRUE
    /\ slotRaised' = FALSE
    /\ bin_data' = 0
    /\ netErrorShown' = FALSE
    /\ progress_task' = NewProgressBar
    /\ IF c.mode \in {1, 2}
       THEN /\ net' = [state |-> "pending", body |-> body, sent |-> 0]
            /\ worker' = worker
       ELSE /\ net' = NoNet
            /\ worker' = run_esptool(worker, run + 1, c, [kind |-> "local", len |-> 0])

\* A start_process that leaves the application's serial port as it is.
StartProcess_KeepsPort(cs) ==
    /\ app = "up" /\ ui = "main" /\ guiPc = "idle"
    /\ run + 1 \in Runs
    /\ \E c \in cs, body \in 0..MaxBody :
        /\ c.mode = 0 => body = 0
        /\ c.mode # 0 => ~c.file
        /\ cfg' = c
        /\ IF c.mode = 0 /\ ~c.file
           THEN UNCHANGED <<run, ui, result, error_msg, btnsEnabled, slotRaised,
                            bin_data, netErrorShown, net, worker, progress_task>>
           ELSE DialogInit(c, body)
    /\ UNCHANGED <<app, guiPc, cacheFile, swFlag, queue, histVars, mainVars>>

\* The Tasmotize button, with the main window's settings among cs.  Lines
\* 457-458 close the application's serial port if it is open.
StartProcess(cs) ==
    /\ app = "up" /\ ui = "main" /\ guiPc = "idle"
    /\ run + 1 \in Runs
    /\ appPort' = "closed"
    /\ \E c \in cs, body \in 0..MaxBody :
        /\ c.mode = 0 => body = 0
        /\ c.mode # 0 => ~c.file
        /\ cfg' = c
        /\ IF c.mode = 0 /\ ~c.file
           THEN \* "Nothing to do...": no dialog is constructed
                UNCHANGED <<run, ui, result, error_msg, btnsEnabled, slotRaised,
                            bin_data, netErrorShown, net, worker, progress_task>>
           ELSE DialogInit(c, body)
    /\ UNCHANGED <<app, guiPc, cacheFile, swFlag, queue, histVars,
                   previous_reply, stream, arrived, sbMessage>>

\* ------------------------------------------------------ Tasmotizer.send_config
\* The Send config button, the SendConfigDialog accepted: the port is opened
\* (a port already open stays open) and the commands are written.  Nothing
\* in send_config closes the port.
send_config ==
    /\ app = "up" /\ ui = "main" /\ guiPc = "idle"
    /\ appPort = "closed"
    /\ appPort' = "open"
    /\ UNCHANGED <<guiVars, netVars, wrkVars, queue, histVars,
                   previous_reply, stream, arrived, sbMessage, progress_task>>

\* ------------------------------------------------------------ QProgressBar
\* QProgressBar.setValue(v) with the default range 0..100: a value outside
\* the range is ignored by the bar.  `shown` keeps what the dialog passed.
setValue(p, v) ==
    [p EXCEPT !.shown = <<v>>, !.value = IF v \in 0..100 THEN v ELSE @]

\* Python's a // b for b # 0: the quotient rounded towards minus infinity.
pyFloorDiv(a, b) ==
    IF b > 0 THEN a \div b
    ELSE -(((-b) - 1 + a) \div (-b))

\* ------------------------------------------------- the network reply's signals
\* downloadProgress -> updateBinProgress(recv, total).  Qt reports the bytes
\* received so far with the total of the body (0 and 0 for an empty body),
\* or with -1 while the total is unknown.  recv // total raises
\* ZeroDivisionError for total = 0; the exception escapes the slot.
updateBinProgress(recv, total) ==
    /\ app = "up" /\ guiPc = "idle" /\ ui \in {"dialog", "result"}
    /\ net.state = "pending"
    /\ recv = net.sent
    /\ total \in {net.body, -1}
    /\ IF total = 0
       THEN /\ ~progress_task.raised
            /\ progress_task' = [progress_task EXCEPT !.raised = TRUE]
            /\ app' \in {"up", "crashed"}
       ELSE /\ progress_task' = setValue(progress_task, pyFloorDiv(recv, total) * 100)
            /\ app' = app
    /\ UNCHANGED <<ui, run, cfg, result, error_msg, btnsEnabled, guiPc, slotRaised,
                   netVars, wrkVars, queue, histVars, mainVars>>

\* erase_timer.timeout -> erase_progress, every 1000 ms while the timer runs.
erase_progress ==
    /\ app = "up" /\ guiPc = "idle" /\ ui \in {"dialog", "result"}
    /\ progress_task.timer
    /\ progress_task' = setValue(progress_task, progress_task.value + 5)
    /\ UNCHANGED <<guiVars, netVars, wrkVars, queue, histVars, mainVars>>

\* readyRead -> appendBinFile: one more chunk of the body is read.
appendBinFile ==
    /\ UNCHANGED <<mainVars, progress_task>>
    /\ app = "up" /\ guiPc = "idle" /\ ui \in {"dialog", "result"}
    /\ net.state = "pending" /\ net.sent < net.body
    /\ net' = [net EXCEPT !.sent = @ + 1]
    /\ bin_data' = bin_data + 1
    /\ UNCHANGED <<guiVars, cacheFile, netErrorShown, wrkVars, queue, histVars>>

\* A saveBinFile that goes on to run_esptool whatever the reply's error is.
saveBinFile_NoErrorCheck(err) ==
    /\ UNCHANGED mainVars
    /\ progress_task' = setValue(progress_task, 0)
    /\ app = "up" /\ guiPc = "idle" /\ ui \in {"dialog", "result"}
    /\ net.state = "pending"
    /\ ~err => net.sent = net.body
    /\ cacheFile' = bin_data
    /\ worker' = run_esptool(worker, run, cfg, [kind |-> "cache", len |-> cacheFile'])
    /\ net' = [net EXCEPT !.state = IF err THEN "error" ELSE "saved"]
    /\ netErrorShown' = err
    /\ UNCHANGED <<guiVars, bin_data, swFlag, queue, histVars>>

\* A saveBinFile that starts the worker before it writes the file.
saveBinFile_StartBeforeWrite(err) ==
    /\ UNCHANGED mainVars
    /\ progress_task' = IF err THEN progress_task ELSE setValue(progress_task, 0)
    /\ app = "up" /\ guiPc = "idle" /\ ui \in {"dialog", "result"}
    /\ net.state = "pending"
    /\ ~err => net.sent = net.body
    /\ IF ~err
       THEN /\ worker' = run_esptool(worker, run, cfg, [kind |-> "cache", len |-> cacheFile])
            /\ cacheFile' = bin_data
            /\ net' = [net EXCEPT !.state = "saved"]
            /\ UNCHANGED netErrorShown
       ELSE /\ netErrorShown' = TRUE
            /\ net' = [net EXCEPT !.state = "error"]
            /\ UNCHANGED <<cacheFile, worker>>
    /\ UNCHANGED <<guiVars, bin_data, swFlag, queue, histVars>>

\* finished -> saveBinFile.  err is bin_reply.error() # NoError; a reply that
\* ends without error has delivered its whole body.  The file is written and
\* closed by the with block before run_esptool is called.
saveBinFile(err) ==
    /\ app = "up" /\ guiPc = "idle" /\ ui \in {"dialog", "result"}
    /\ net.state = "pending"
    /\ ~err => net.sent = net.body
    /\ IF ~err
       THEN /\ cacheFile' = bin_data
            /\ progress_task' = setValue(progress_task, 0)
            /\ worker' = run_esptool(worker, run, cfg, [kind |-> "cache", len |-> cacheFile'])
            /\ net' = [net EXCEPT !.state = "saved"]
            /\ UNCHANGED netErrorShown
       ELSE /\ netErrorShown' = TRUE
            /\ net' = [net EXCEPT !.state = "error"]
            /\ UNCHANGED <<cacheFile, worker, progress_task>>
    /\ UNCHANGED <<guiVars, bin_data, swFlag, queue, histVars, mainVars>>

\* ------------------------------------------------------------ ESPWorker.stop
\* A stop that leaves the worker's continue_flag as it is.
stop_KeepsFlag(w, r) == w

stop(w, r) == [w EXCEPT ![r].continue_flag = FALSE]

\* QThread.quit on the run's thread: its event loop returns once execute has.
quit(w, r) == [w EXCEPT ![r].quit = TRUE]

\* ------------------------------------------------------- FlashingDialog.abort
\* The Abort button (btns.rejected).  With no worker yet, self.espworker is
\* an AttributeError that escapes the slot: PyQt either aborts the process or
\* prints the traceback and carries on, depending on its version and hook.
abort ==
    /\ UNCHANGED <<mainVars, progress_task>>
    /\ app = "up" /\ guiPc = "idle"
    /\ ui = "dialog" /\ result = "none" /\ btnsEnabled
    /\ IF worker[run].pc = "none"
       THEN /\ ~slotRaised
            /\ slotRaised' = TRUE
            /\ app' \in {"up", "crashed"}
            /\ UNCHANGED <<guiPc, worker, swFlag, cancelReq>>
       ELSE /\ worker' = quit(stop(worker, run), run)
            /\ swFlag' = FALSE
            /\ guiPc' = "wait_abort"
            /\ cancelReq' = [cancelReq EXCEPT ![run] = TRUE]
            /\ UNCHANGED <<app, slotRaised>>
    /\ UNCHANGED <<ui, run, cfg, result, error_msg, btnsEnabled, netVars, queue,
                   driverCalls, stageBegun, started, terminals, backupFailed, outcome>>

\* ----------------------------------- Tasmotizer.start_process after dlg.exec_()
Presented(res, msg) ==
    IF res = "Accepted" THEN [kind |-> "Success", detail |-> None]
    ELSE IF msg # None /\ msg # "" THEN [kind |-> "Failed", detail |-> msg]
    ELSE [kind |-> "Aborted", detail |-> None]

\* espthread.wait(2000) returns, because the thread finished or because the
\* time is up, and the handler goes on to reject() or done(Accepted).
\* abort() runs from the button's click: when it returns, the event loop of
\* exec_() ends and start_process goes on at once.  accept()
\* runs from a queued signal: the signals queued behind it are still
\* delivered before exec_() returns (ExecReturn).
waitReturns ==
    /\ UNCHANGED <<mainVars, progress_task>>
    /\ app = "up" /\ guiPc \in {"wait_abort", "wait_accept"}
    /\ guiPc' = "idle"
    /\ IF guiPc = "wait_abort"
       THEN /\ result' = "Rejected"
            /\ ui' = "result"
            /\ outcome' = [outcome EXCEPT ![run] = Presented("Rejected", error_msg)]
       ELSE /\ result' = "Accepted"
            /\ UNCHANGED <<ui, outcome>>
    /\ UNCHANGED <<app, run, cfg, error_msg, btnsEnabled, slotRaised, netVars,
                   wrkVars, queue,
                   driverCalls, stageBegun, started, terminals, backupFailed, cancelReq>>

\* ------------------------------------- the dialog's slots for queued signals
\* FlashingDialog.accept, up to its wait.
accept ==
    /\ worker' = quit(stop(worker, run), run)
    /\ swFlag' = FALSE
    /\ guiPc' = "wait_accept"

\* The slot of signal sig runs in the GUI thread for the live dialog.
Slot(sig, arg) ==
    /\ started' = IF sig = "read_start" THEN [started EXCEPT ![run] = Append(@, "Backup")]
                  ELSE IF sig = "erase_start" THEN [started EXCEPT ![run] = Append(@, "Erase")]
                  ELSE IF sig = "write_start" THEN [started EXCEPT ![run] = Append(@, "Write")]
                  ELSE started
    /\ btnsEnabled' = IF sig = "erase_start" THEN FALSE
                      ELSE IF sig = "erase_finished" THEN TRUE
                      ELSE btnsEnabled
    /\ progress_task' =
          IF sig \in {"read_start", "write_start"} THEN setValue(progress_task, 0)
          ELSE IF sig \in {"read_finished", "write_finished"} THEN setValue(progress_task, 100)
          ELSE IF sig = "erase_start"
               THEN [setValue(progress_task, 0) EXCEPT !.timer = TRUE]
          ELSE IF sig = "erase_finished"
               THEN [setValue(progress_task, 100) EXCEPT !.timer = FALSE]
          ELSE progress_task
    /\ IF sig = "write_finished"
       THEN accept /\ UNCHANGED <<result, error_msg>>
       ELSE IF sig = "port_error"
       THEN /\ error_msg' = arg
            /\ result' = "Rejected"
            /\ UNCHANGED <<worker, swFlag, guiPc>>
       ELSE UNCHANGED <<result, error_msg, worker, swFlag, guiPc>>

\* The GUI event loop delivers the oldest queued signal; one whose receiver
\* has been destroyed is discarded.
Deliver ==
    /\ app = "up" /\ guiPc = "idle"
    /\ queue # <<>>
    /\ queue' = Tail(queue)
    /\ IF DialogAlive(Head(queue).to)
       THEN Slot(Head(queue).sig, Head(queue).arg)
       ELSE UNCHANGED <<started, btnsEnabled, result, error_msg, worker, swFlag, guiPc,
                        progress_task>>
    /\ UNCHANGED <<app, ui, run, cfg, slotRaised, netVars, mainVars,
                   driverCalls, stageBegun, terminals, backupFailed, cancelReq, outcome>>

\* exec_() returns after a slot run from a queued signal (error, accept) has
\* called done(): the event loop first delivers every signal still queued,
\* then start_process shows the message box that goes with the result code
\* and error_msg it finds.
ExecReturn ==
    /\ UNCHANGED <<mainVars, progress_task>>
    /\ app = "up" /\ guiPc = "idle"
    /\ ui = "dialog" /\ result # "none"
    /\ queue = <<>>
    /\ ui' = "result"
    /\ outcome' = [outcome EXCEPT ![run] = Presented(result, error_msg)]
    /\ UNCHANGED <<app, run, cfg, result, error_msg, btnsEnabled, guiPc, slotRaised,
                   netVars, wrkVars, queue,
                   driverCalls, stageBegun, started, terminals, backupFailed, cancelReq>>

\* A release of the dialog that leaves its thread running, whatever the
\* thread is doing.
DismissResult_ThreadSurvives ==
    /\ UNCHANGED <<mainVars, progress_task>>
    /\ app = "up" /\ guiPc = "idle"
    /\ ui = "result"
    /\ ui' = "main"
    /\ UNCHANGED <<app, run, cfg, result, error_msg, btnsEnabled, guiPc, slotRaised,
                   netVars, wrkVars, queue, histVars>>

\* The message box is dismissed and start_process returns: dlg was its only
\* reference (PyQt keeps weak references to the bound methods connected as
\* slots), so the dialog and its QThread object are destroyed there.  Qt
\* ends the process when a QThread is destroyed while its thread is running
\* ("QThread: Destroyed while thread is still running"): the thread runs
\* until execute has returned and quit() has been called.  A thread that is
\* just finishing may or may not be seen as finished.
DismissResult ==
    /\ UNCHANGED <<mainVars, progress_task>>
    /\ app = "up" /\ guiPc = "idle"
    /\ ui = "result"
    /\ ui' = "main"
    /\ IF worker[run].pc \in {"none", "exited"}
       THEN app' = app
       ELSE IF worker[run].pc = "done" /\ worker[run].quit
       THEN app' \in {"up", "crashed"}
       ELSE app' = "crashed"
    /\ UNCHANGED <<run, cfg, result, error_msg, btnsEnabled, guiPc, slotRaised,
                   netVars, wrkVars, queue, histVars>>

\* --------------------------------------------------------- ESPWorker.execute
\* Line 55: the process-wide continue flag is set on entry.
ExecInit(r) ==
    /\ UNCHANGED <<mainVars, progress_task>>
    /\ app = "up" /\ worker[r].pc = "init"
    /\ swFlag' = TRUE
    /\ worker' = [worker EXCEPT ![r].pc = "check_backup"]
    /\ UNCHANGED <<guiVars, netVars, queue, histVars>>

\* Line 60: the backup command is run if backup is set and stop() has not
\* been called.  backup_start has no slot connected.
ExecBackup(r) ==
    /\ UNCHANGED <<mainVars, progress_task>>
    /\ app = "up" /\ worker[r].pc = "check_backup"
    /\ IF worker[r].backup /\ worker[r].continue_flag
       THEN /\ worker' = [worker EXCEPT ![r].pc = "read_call"]
            /\ driverCalls' = [driverCalls EXCEPT
                                 ![r] = Append(@, [op |-> "read_flash", n |-> worker[r].execs])]
       ELSE /\ worker' = [worker EXCEPT ![r].pc = "mid"]
            /\ UNCHANGED driverCalls
    /\ UNCHANGED <<guiVars, netVars, swFlag, queue,
                   stageBegun, started, terminals, backupFailed, cancelReq, outcome>>

\* Line 69: the write command is run if stop() has not been called.
ExecWrite(r) ==
    /\ UNCHANGED <<mainVars, progress_task>>
    /\ app = "up" /\ worker[r].pc = "mid"
    /\ IF worker[r].continue_flag
       THEN /\ worker' = [worker EXCEPT ![r].pc = "write_call"]
            /\ driverCalls' = [driverCalls EXCEPT
                                 ![r] = Append(@, [op |-> "write_flash", n |-> worker[r].execs])]
       ELSE /\ worker' = [worker EXCEPT ![r].pc = "done"]
            /\ UNCHANGED driverCalls
    /\ UNCHANGED <<guiVars, netVars, swFlag, queue,
                   stageBegun, started, terminals, backupFailed, cancelReq, outcome>>

\* Lines 66-67 and 80-81: the driver call raises FatalError or
\* SerialException with text e; execute emits port_error(e) and goes on with
\* the statement after the try.  port_error is connected to the dialog of the
\* worker's own run only.
ReadPcs == {"read_call", "reading"}
WritePcs == {"write_call", "erasing", "erased", "writing", "written", "verifying"}

PostError(q, r, e) ==
    IF DialogAlive(r) THEN Append(q, [sig |-> "port_error", to |-> r, arg |-> e]) ELSE q

ExecExcept(r, e) ==
    /\ UNCHANGED <<mainVars, progress_task>>
    /\ app = "up" /\ worker[r].pc \in ReadPcs \cup WritePcs
    /\ queue' = PostError(queue, r, e)
    /\ terminals' = [terminals EXCEPT ![r] = Append(@, "port_error")]
    /\ IF worker[r].pc \in ReadPcs
       THEN /\ worker' = [worker EXCEPT ![r].pc = "mid"]
            /\ backupFailed' = [backupFailed EXCEPT ![r] = TRUE]
       ELSE /\ worker' = [worker EXCEPT ![r].pc = "done"]
            /\ UNCHANGED backupFailed
    /\ UNCHANGED <<guiVars, netVars, swFlag,
                   driverCalls, stageBegun, started, cancelReq, outcome>>

\* Line 79: the write command returned; finished is emitted (no slot is
\* connected to it) and execute returns.
ExecFinished(r) ==
    /\ worker' = [worker EXCEPT ![r].pc = "done"]
    /\ terminals' = [terminals EXCEPT ![r] = Append(@, "finished")]

\* The thread's event loop ends after quit() once execute has returned.
ThreadExit(r) ==
    /\ UNCHANGED <<mainVars, progress_task>>
    /\ app = "up" /\ worker[r].pc = "done" /\ worker[r].quit
    /\ worker' = [worker EXCEPT ![r].pc = "exited"]
    /\ UNCHANGED <<guiVars, netVars, swFlag, queue, histVars>>

\* ------------------------------------------------- the driver, inside a call
\* read_flash: read_start, the read, read_finished, return.
DriverRead(r) ==
    /\ UNCHANGED <<mainVars, progress_task>>
    /\ app = "up"
    /\ \/ /\ worker[r].pc = "read_call"
          /\ queue' = Post(queue, "read_start", None)
          /\ stageBegun' = [stageBegun EXCEPT ![r] = Append(@, "Backup")]
          /\ worker' = [worker EXCEPT ![r].pc = "reading"]
       \/ /\ worker[r].pc = "reading"
          /\ queue' = Post(queue, "read_finished", None)
          /\ worker' = [worker EXCEPT ![r].pc = "mid"]
          /\ UNCHANGED stageBegun
    /\ UNCHANGED <<guiVars, netVars, swFlag,
                   driverCalls, started, terminals, backupFailed, cancelReq, outcome>>

\* write_flash: with --erase-all the erase first (erase_start,
\* erase_finished), then write_start, the write, write_finished, then the
\* verification if asked for, then return.
DriverWrite(r) ==
    /\ UNCHANGED <<mainVars, progress_task>>
    /\ app = "up"
    /\ \/ /\ worker[r].pc = "write_call" /\ worker[r].erase
          /\ queue' = Post(queue, "erase_start", None)
          /\ stageBegun' = [stageBegun EXCEPT ![r] = Append(@, "Erase")]
          /\ worker' = [worker EXCEPT ![r].pc = "erasing"]
          /\ UNCHANGED terminals
       \/ /\ worker[r].pc = "erasing"
          /\ queue' = Post(queue, "erase_finished", None)
          /\ worker' = [worker EXCEPT ![r].pc = "erased"]
          /\ UNCHANGED <<stageBegun, terminals>>
       \/ /\ \/ worker[r].pc = "write_call" /\ ~worker[r].erase
             \/ worker[r].pc = "erased"
          /\ queue' = Post(queue, "write_start", None)
          /\ stageBegun' = [stageBegun EXCEPT ![r] = Append(@, "Write")]
          /\ worker' = [worker EXCEPT ![r].pc = "writing"]
          /\ UNCHANGED terminals
       \/ /\ worker[r].pc = "writing"
          /\ queue' = Post(queue, "write_finished", None)
          /\ worker' = [worker EXCEPT ![r].pc = "written"]
          /\ UNCHANGED <<stageBegun, terminals>>
       \/ /\ worker[r].pc = "written" /\ worker[r].verify
          /\ stageBegun' = [stageBegun EXCEPT ![r] = Append(@, "Verify")]
          /\ worker' = [worker EXCEPT ![r].pc = "verifying"]
          /\ UNCHANGED <<queue, terminals>>
       \/ /\ \/ worker[r].pc = "written" /\ ~worker[r].verify
             \/ worker[r].pc = "verifying"
          /\ ExecFinished(r)
          /\ UNCHANGED <<queue, stageBegun>>
    /\ UNCHANGED <<guiVars, netVars, swFlag,
                   driverCalls, started, backupFailed, cancelReq, outcome>>

\* The driver polls the continue flag inside the read, the write and the
\* verification; finding it cleared it gives up the call by returning (the
\* other way of giving up, raising, is ExecExcept).
DriverStopped(r) ==
    /\ UNCHANGED <<mainVars, progress_task>>
    /\ app = "up" /\ ~swFlag
    /\ \/ /\ worker[r].pc = "reading"
          /\ worker' = [worker EXCEPT ![r].pc = "mid"]
          /\ UNCHANGED terminals
       \/ /\ worker[r].pc \in {"writing", "verifying"}
          /\ ExecFinished(r)
    /\ UNCHANGED <<guiVars, netVars, swFlag, queue,
                   driverCalls, stageBegun, started, backupFailed, cancelReq, outcome>>

\* ESPWorker.execute called again on a worker whose execute has returned.
\* The application never does this (execute is connected to the started
\* signal of a thread that is started once); SpecReinvoke adds the call to
\* examine what the slot itself does when invoked a second time.
MaxExecs == 2

Reinvoke(r) ==
    /\ UNCHANGED <<mainVars, progress_task>>
    /\ app = "up" /\ worker[r].pc = "done"
    /\ worker[r].execs < MaxExecs
    /\ worker' = [worker EXCEPT ![r].pc = "init", ![r].execs = @ + 1]
    /\ UNCHANGED <<guiVars, netVars, swFlag, queue, histVars>>

\* ------------------------------------------------------------ specification
GuiNext ==
    \/ run = 0 /\ StartProcess(Configs)
    \/ send_config
    \/ appendBinFile
    \/ \E recv \in 0..MaxBody, total \in -1..MaxBody : updateBinProgress(recv, total)
    \/ \E err \in BOOLEAN : saveBinFile(err)
    \/ erase_progress
    \/ abort
    \/ waitReturns
    \/ Deliver
    \/ ExecReturn
    \/ DismissResult

WorkerNext ==
    \E r \in Runs :
        \/ ExecInit(r)
        \/ ExecBackup(r)
        \/ ExecWrite(r)
        \/ \E e \in ErrTexts : ExecExcept(r, e)
        \/ ThreadExit(r)
        \/ DriverRead(r)
        \/ DriverWrite(r)
        \/ DriverStopped(r)

Next == GuiNext \/ WorkerNext

Spec == Init /\ [][Next]_vars

\* The steps that need no user: everything but a click on Tasmotize, on Abort
\* or on the button of the closing message box.
SystemNext ==
    \/ appendBinFile
    \/ \E recv \in 0..MaxBody, total \in -1..MaxBody : updateBinProgress(recv, total)
    \/ \E err \in BOOLEAN : saveBinFile(err)
    \/ erase_progress
    \/ waitReturns
    \/ Deliver
    \/ ExecReturn
    \/ WorkerNext


\* The main window with a local BIN file selected, with or without the
\* backup, and neither erase nor verify.
LocalConfigs == {c \in Configs : c.mode = 0 /\ c.file /\ ~c.erase /\ ~c.verify}

\* A run with a local image and without the user's later clicks (after
\* Tasmotize, neither Abort nor the closing of the message box), plus a second
\* invocation of the execute slot.
NextReinvoke ==
    \/ run = 0 /\ StartProcess(LocalConfigs)
    \/ waitReturns
    \/ Deliver
    \/ ExecReturn
    \/ WorkerNext
    \/ \E r \in Runs : Reinvoke(r)

SpecReinvoke == Init /\ [][NextReinvoke]_vars

\* ------------------------------------------------- Tasmotizer.showCurrentIP
\* Text is a sequence of characters; CR and LF stand for "\r" and "\n".
CR == "CR"
LF == "LF"
Digits == {"0", "1", "2", "3", "4", "5", "6", "7", "8", "9"}

\* str.replace("\r\n", ""): every carriage return followed by a line feed is
\* removed, scanning from the left.
RECURSIVE StripCRLF(_)
StripCRLF(s) ==
    IF s = <<>> THEN <<>>
    ELSE IF Len(s) >= 2 /\ s[1] = CR /\ s[2] = LF THEN StripCRLF(Tail(Tail(s)))
    ELSE <<Head(s)>> \o StripCRLF(Tail(s))

\* The literal head of the pattern, "IP address ".
IPPrefix == <<"I", "P", " ", "a", "d", "d", "r", "e", "s", "s", " ">>

\* The number of digits that follow one another in s from position p on.
RECURSIVE DigitRun(_, _)
DigitRun(s, p) ==
    IF p <= Len(s) /\ s[p] \in Digits THEN 1 + DigitRun(s, p + 1) ELSE 0

\* \d{1,3} followed by "\." for each group but the last, from position p
\* with g groups to go: the position of the last character matched, or 0.
\* A group before a dot matches only if all its digits, at most three, are
\* followed by the dot; the last group takes up to three digits greedily.
RECURSIVE MatchGroups(_, _, _)
MatchGroups(s, p, g) ==
    LET k == DigitRun(s, p)
    IN  IF g = 1
        THEN IF k >= 1 THEN p + (IF k > 3 THEN 3 ELSE k) - 1 ELSE 0
        ELSE IF k \in 1..3 /\ p + k <= Len(s) /\ s[p + k] = "."
             THEN MatchGroups(s, p + k + 1, g - 1)
             ELSE 0

\* The pattern matched at position i of s: the text of group ip, or <<>>.
MatchAt(s, i) ==
    IF /\ i + Len(IPPrefix) - 1 <= Len(s)
       /\ SubSeq(s, i, i + Len(IPPrefix) - 1) = IPPrefix
    THEN LET e == MatchGroups(s, i + Len(IPPrefix), 4)
         IN  IF e = 0 THEN <<>> ELSE SubSeq(s, i + Len(IPPrefix), e)
    ELSE <<>>

\* re.search: group ip of the leftmost match in s, or <<>> for no match.
SearchIP(s) ==
    LET M == {i \in 1..Len(s) : MatchAt(s, i) # <<>>}
    IN  IF M = {} THEN <<>>
        ELSE MatchAt(s, CHOOSE i \in M : \A j \in M : i <= j)

\* readyRead on the application's port with the next n characters of the
\* device's output in the buffer: showCurrentIP reads them all, searches the
\* previous read followed by this one, and on a match shows the address and
\* closes the port, else remembers this read as the previous one.
showCurrentIP(n) ==
    /\ app = "up" /\ guiPc = "idle"
    /\ appPort = "open"
    /\ n \in 1..Len(stream)
    /\ LET current_reply == SubSeq(stream, 1, n)
           reply == StripCRLF(previous_reply \o current_reply)
           ip == SearchIP(reply)
       IN  /\ stream' = SubSeq(stream, n + 1, Len(stream))
           /\ arrived' = arrived \o current_reply
           /\ IF ip # <<>>
              THEN /\ sbMessage' = Append(sbMessage, ip)
                   /\ appPort' = "closed"
                   /\ UNCHANGED previous_reply
              ELSE /\ previous_reply' = current_reply
                   /\ UNCHANGED <<sbMessage, appPort>>
    /\ UNCHANGED <<guiVars, netVars, wrkVars, queue, histVars, progress_task>>

\* Boot logs of a device that restarts after send_config: a line that
\* announces the address, alone or after another line, and a log without an
\* address.
BootLogs ==
    { IPPrefix \o <<"1", ".", "2", ".", "3", ".", "4", "5">> \o <<CR, LF>>,
      <<"o", "k", CR, LF>> \o IPPrefix \o <<"1", "0", ".", "0", ".", "0", ".", "7">> \o <<CR, LF>>,
      <<"o", "k", CR, LF, "I", "P", CR, LF>> }

\* The main window after send_config has opened the port, the device about
\* to send its boot log.
InitIP ==
    /\ InitWindow
    /\ appPort = "open"
    /\ stream \in BootLogs

NextIP == \E n \in 1..Len(stream) : showCurrentIP(n)

SpecIP == InitIP /\ [][NextIP]_vars

\* Two Tasmotize runs in a row of such a run.
NextTwoRuns ==
    \/ StartProcess(LocalConfigs)
    \/ abort
    \/ waitReturns
    \/ Deliver
    \/ ExecReturn
    \/ DismissResult
    \/ WorkerNext

SpecTwoRuns == Init /\ [][NextTwoRuns]_vars

\* ================================================================= claims
IsPrefix(a, b) == Len(a) <= Len(b) /\ \A i \in 1..Len(a) : a[i] = b[i]

Range(q) == {q[i] : i \in 1..Len(q)}

Ops(r) == {c.op : c \in Range(driverCalls[r])}

\* The configured stage list of run r's worker, in the fixed order.
EnabledStages(r) ==
    (IF worker[r].backup THEN <<"Backup">> ELSE <<>>)
    \o (IF worker[r].erase THEN <<"Erase">> ELSE <<>>)
    \o <<"Write">>
    \o (IF worker[r].verify THEN <<"Verify">> ELSE <<>>)

\* C1: with backup enabled, once the read_flash call of a run has failed with
\* a driver/serial error, write_flash is not invoked in that run.
C1_NoWriteAfterFailedBackup ==
    \A r \in Runs :
        (worker[r].backup /\ backupFailed[r]) => "write_flash" \notin Ops(r)

\* C2: the stage starts the dialog observes are the configured stage list in
\* the fixed order (a prefix of it while the run is under way, all of it
\* once the run is presented as a success), and no stage is started after a
\* stage that failed.
C2_StartedIsConfiguredList ==
    \A r \in Runs :
        /\ IsPrefix(started[r], EnabledStages(r))
        /\ outcome[r].kind = "Success" => started[r] = EnabledStages(r)
        /\ backupFailed[r] =>
            /\ "write_flash" \notin Ops(r)
            /\ Range(started[r]) \subseteq {"Backup"}

\* C3: a run has exactly one terminal outcome: the worker emits at most one
\* terminal signal (finished or port_error), and a run whose dialog has been
\* released was presented with an outcome.
C3_ExactlyOneTerminal ==
    \A r \in Runs :
        /\ Len(terminals[r]) <= 1
        /\ (r = run /\ ui = "main") => outcome[r].kind # "none"

AbortPressed(r) == cancelReq[r] \/ (r = run /\ slotRaised)

\* C5: a press on Abort at any point of a run returns control to the caller
\* with the outcome Aborted: once the GUI thread has left the handler, the
\* process is alive and the run has been presented as Aborted.
C5_CancelAlwaysAborts ==
    \A r \in Runs :
        (AbortPressed(r) /\ guiPc = "idle") =>
            /\ app = "up"
            /\ outcome[r].kind = "Aborted"

\* C6: a second invocation of execute on a worker makes no driver call: every
\* driver call of a worker belongs to its first execution.
C6_SecondExecuteMakesNoCall ==
    \A r \in Runs : \A c \in Range(driverCalls[r]) : c.n = 1

\* C7: when the fetch of a remote image has ended with a transport error, no
\* worker exists and no driver call has been made in that run.
C7_NoDriverCallAfterFetchError ==
    net.state = "error" =>
        \A r \in Runs : r = run =>
            /\ worker[r].pc = "none"
            /\ driverCalls[r] = <<>>
            /\ stageBegun[r] = <<>>

\* The fetch failed after part of the body had arrived; the error was shown.
C7_Witness == net.state = "error" /\ netErrorShown /\ net.sent > 0 /\ bin_data > 0

\* C8: when the fetch has ended with a transport error and nothing more can
\* happen without the user, the run has been presented as Failed with the
\* error's detail.
C8_FetchErrorEndsFailed ==
    (net.state = "error" /\ ~ENABLED SystemNext) =>
        /\ outcome[run].kind = "Failed"
        /\ outcome[run].detail = NetErrText

\* C9: a fetch that completes without transport error but with an empty body
\* starts no worker and makes no driver call.
C9_EmptyBodyNotFlashed ==
    (net.state = "saved" /\ net.body = 0) =>
        /\ worker[run].pc = "none"
        /\ driverCalls[run] = <<>>

\* C10: with a remote image, a worker exists only once the complete fetched
\* body has been written to the cache file and the file closed: what the file
\* held when the worker was started is all of the body.
C10_ImageSavedBeforeWorker ==
    \A r \in Runs :
        (r = run /\ cfg.mode # 0 /\ worker[r].pc # "none") =>
            /\ worker[r].image = [kind |-> "cache", len |-> net.body]
            /\ cacheFile = net.body
            /\ net.state = "saved"

\* A remote image of the largest size was fetched and a driver call made.
C10_Witness ==
    /\ cfg.mode # 0 /\ net.body = MaxBody
    /\ run = 1 /\ driverCalls[1] # <<>>

\* C11: once the outcome of a run has been presented (success, failure or
\* abort, the abort's wait timed out or not), the run's worker is not inside
\* a driver call and so no longer holds the serial port.
C11_WorkerStoppedAtOutcome ==
    \A r \in Runs :
        outcome[r].kind # "none" => worker[r].pc \notin ReadPcs \cup WritePcs

\* The worker of run r reported a driver error.
WorkerReportedError(r) == "port_error" \in Range(terminals[r])

\* C14: at the step that presents a run's outcome, a run whose driver error
\* has reached the dialog and whose user never pressed Abort is presented as
\* Failed with the error's text, whatever the text, and a run whose user
\* pressed Abort without the worker having reported an error is presented as
\* Aborted.
C14_FailedAndAbortedDistinct ==
    [][\A r \in Runs :
        (outcome[r].kind = "none" /\ outcome'[r].kind # "none") =>
            /\ (error_msg # None /\ ~AbortPressed(r)) =>
                    outcome'[r] = [kind |-> "Failed", detail |-> error_msg]
            /\ (AbortPressed(r) /\ ~WorkerReportedError(r)) =>
                    outcome'[r].kind = "Aborted"]_vars

\* stop() has been called on the worker of run r.
StopRequested(r) == worker[r].pc # "none" /\ ~worker[r].continue_flag

\* C15: once stop has been requested for a run, the continue flag the driver
\* polls (esptool.sw) reads "stop" and is never set back to "continue".
C15_StopFlagStaysSet ==
    \A r \in Runs : StopRequested(r) => ~swFlag

\* The write command of run r returned with its verification begun.
VerifyFinished(r) ==
    /\ worker[r].pc \in {"done", "exited"}
    /\ "Verify" \in Range(stageBegun[r])
    /\ "finished" \in Range(terminals[r])

\* C16: with verify enabled, the dialog does not accept (and so does not call
\* stop()) and the run is not presented as Success before the verification
\* has finished.
C16_NoSuccessBeforeVerify ==
    \A r \in Runs :
        (r = run /\ worker[r].verify) =>
            /\ (guiPc = "wait_accept" \/ result = "Accepted") => VerifyFinished(r)
            /\ outcome[r].kind = "Success" => VerifyFinished(r)

\* C17: when Abort was pressed while the remote image was still being
\* fetched, the run is presented as Aborted once the handler has been left,
\* and the completion of the download starts no worker.
C17_CancelDuringFetch ==
    (slotRaised /\ net.state \in {"pending", "saved"} /\ guiPc = "idle") =>
        /\ outcome[run].kind = "Aborted"
        /\ worker[run].pc = "none"
        /\ driverCalls[run] = <<>>

\* The worker of run r is inside a driver call.
InDriverCall(r) == worker[r].pc \in ReadPcs \cup WritePcs

\* C13: the application's own serial port is not open while a worker is
\* executing: whenever it is open, every worker that exists has returned
\* from execute.
C13_AppPortClosedWhileWorkerRuns ==
    appPort = "open" =>
        \A r \in Runs : ~InDriverCall(r) /\ worker[r].pc \in {"none", "done", "exited"}

\* The port is opened by send_config after a run whose worker made driver
\* calls and has stopped.
C13_Witness ==
    /\ appPort = "open" /\ ui = "main"
    /\ worker[1].pc = "exited" /\ driverCalls[1] # <<>>

\* C18: every progress value the dialog passes to its progress bar is
\* defined (its computation did not raise) and lies in 0..100.
C18_ProgressInRange ==
    /\ ~progress_task.raised
    /\ \A i \in 1..Len(progress_task.shown) : progress_task.shown[i] \in 0..100

\* The worker of run r exists and its thread has not finished.
WorkerActive(r) == worker[r].pc \notin {"none", "exited"}

\* C12: at most one run is active at a time: no two workers are inside a
\* driver call at once, and a run is started only when the thread of every
\* earlier run has finished or is finishing.
C12_OneWorkerAtATime ==
    \A r1, r2 \in Runs :
        r1 < r2 =>
            /\ ~(InDriverCall(r1) /\ InDriverCall(r2))
            /\ WorkerActive(r2) => worker[r1].pc \in {"none", "done", "exited"}

\* The second run's worker is inside a driver call after a first run that
\* made driver calls and was aborted.
C12_Witness ==
    /\ run = 2 /\ InDriverCall(2)
    /\ cancelReq[1] /\ driverCalls[1] # <<>>
    /\ worker[1].pc = "exited"

\* The address announced first in everything the device sends, line endings
\* removed.
ExpectedIP == SearchIP(StripCRLF(arrived \o stream))

\* C19: however the device's output is split into reads, the address shown
\* is the first one announced in the whole output with its line endings
\* removed, with all its digits; it is shown once the output has arrived,
\* the port is closed on the match and nothing is shown after it.
C19_ReportsFirstIP ==
    /\ Len(sbMessage) <= 1
    /\ \A i \in 1..Len(sbMessage) : sbMessage[i] = ExpectedIP
    /\ sbMessage # <<>> => appPort = "closed"
    /\ (stream = <<>> /\ ExpectedIP # <<>>) => sbMessage = <<ExpectedIP>>

====
